---- MODULE Spec2Model ----
(***************************************************************************)
(* Scoring and filtering pipeline of the community engagement engine:      *)
(* KeywordMatcher (keyword cache, whole-word matching, diminishing-returns *)
(* score), PostScorer, PostFilter and ScoringEngine, over the keyword and  *)
(* post tables of DatabaseManager.                                         *)
(*                                                                         *)
(* A text is a sequence of one-character strings, so that lower-casing,    *)
(* the regular expression's word boundaries and substring search are       *)
(* computed character by character as the code computes them.              *)
(***************************************************************************)
EXTENDS Integers, Sequences, FiniteSets, TLC

VARIABLES
    now,              \* datetime.now(): wall clock, in seconds
    keywords,         \* table keywords: set of rows (keyword, category, score_value)
    posts_table,      \* table posts: set of rows, UNIQUE(platform, post_id)
    scoring_history,  \* table scoring_history: set of rows
    next_rowid,       \* AUTOINCREMENT counter of table posts
    keyword_cache,    \* KeywordMatcher._keyword_cache (None or a list of triples)
    cache_timestamp,  \* KeywordMatcher._cache_timestamp (None or a time)
    config,           \* config.scoring (static after load)
    pc,               \* position of the process_posts run in progress
    batch,            \* filtered_posts of the run in progress
    idx,              \* index in batch of the post score_posts is working on
    title_matches,    \* score_post's local title_matches
    results,          \* score_posts's local results
    returned,         \* value returned by the last finished engine call
    runs,             \* number of engine calls started so far
    env_steps,        \* number of clock advances and keyword table updates so far
    last_get,         \* what the last step's _get_keywords call did
    store_at_capture, \* content of table keywords when the cache was last replaced
    batch_snapshots,  \* keyword snapshots the run in progress has matched against
    score_errors,     \* indexes in batch of the posts for which score_posts has
                      \* logged "Error scoring post" in the call in progress
    db_errors,        \* errors DatabaseManager has logged in the engine call in progress
                      \* or just finished: the operation and the post key
    utc_offset,       \* local time minus UTC of the process, in seconds
    fn_input,         \* argument of the last call on record
    fn_output         \* what a direct call returned (None before the call)

vars == <<now, keywords, posts_table, scoring_history, next_rowid, keyword_cache,
          cache_timestamp, config, pc, batch, idx, title_matches, results,
          returned, runs, env_steps, last_get, store_at_capture,
          batch_snapshots, score_errors,
          db_errors, utc_offset, fn_input, fn_output>>

engine_vars == <<now, keywords, posts_table, scoring_history, next_rowid,
                 keyword_cache, cache_timestamp, config, pc, batch, idx,
                 title_matches, results, returned, runs, env_steps,
                 last_get, store_at_capture, batch_snapshots, score_errors,
                 db_errors, utc_offset>>

\* Python's None, and a value that is not None
None == [is_none |-> TRUE]
Some(v) == [is_none |-> FALSE, value |-> v]

-----------------------------------------------------------------------------
(* Bounds of the model.                                                    *)

MaxTextLen == 4      \* longest text given to find_matches on its own
MaxMatches == 3      \* longest match list given to calculate_keyword_score
MaxBatch == 2        \* longest post list given to process_posts
MaxRuns == 2         \* engine calls per behaviour
MaxEnvSteps == 2     \* clock advances and keyword table updates per behaviour
MaxListLen == 3      \* longest list given to score_posts or to a filter on its own
MaxSaves == 2        \* save_post calls ahead of a filter called on its own

-----------------------------------------------------------------------------
(* Characters and texts.                                                   *)

UpperChars == {"A"}
LowerLetters == {"a", "b"}
\* \w of Python's re on str: letters, digits and the underscore
WordChars == LowerLetters \cup UpperChars
\* neither \w: the space and a punctuation character
OtherChars == {" ", "+"}
Alphabet == WordChars \cup OtherChars

\* str.lower() on one character
LowerChar(c) == IF c = "A" THEN "a" ELSE c

\* str.lower()
Lower(text) == [i \in 1..Len(text) |-> LowerChar(text[i])]

SeqsUpTo(S, n) == UNION {[1..k -> S] : k \in 0..n}

\* \b at position p (between character p and character p+1) of text
IsWordAt(text, k) == k \in 1..Len(text) /\ text[k] \in WordChars
WordBoundary(text, p) == IsWordAt(text, p) # IsWordAt(text, p + 1)

\* the positions i (0-based offsets) at which r'\b' + re.escape(keyword) + r'\b'
\* matches text
MatchOffsets(keyword, text) ==
    {i \in 0..(Len(text) - Len(keyword)) :
        /\ WordBoundary(text, i)
        /\ \A j \in 1..Len(keyword) : text[i + j] = keyword[j]
        /\ WordBoundary(text, i + Len(keyword))}

\* re.search(pattern, text_lower) is not None
ReSearch(keyword, text) == MatchOffsets(keyword, text) # {}

\* the loop of find_matches over the keyword list, in list order
RECURSIVE MatchLoop(_, _)
MatchLoop(kws, text_lower) ==
    IF kws = <<>> THEN <<>>
    ELSE LET k == Head(kws)
             rest == MatchLoop(Tail(kws), text_lower)
         IN IF ReSearch(k[1], text_lower) THEN <<k>> \o rest ELSE rest

\* find_matches(text), given the list _get_keywords() returned
FindMatchesIn(text, kws) ==
    IF text = <<>> THEN <<>> ELSE MatchLoop(kws, Lower(text))

-----------------------------------------------------------------------------
(* calculate_keyword_score.                                                *)

\* the for loop of calculate_keyword_score from index i on, with the running
\* keyword_counts and total_score
RECURSIVE ScoreLoopAlt(_, _, _, _)
ScoreLoopAlt(matches, i, keyword_counts, total_score) ==
    IF i > Len(matches) THEN total_score
    ELSE LET keyword == matches[i][1]
             score_value == matches[i][3]
             n == (IF keyword \in DOMAIN keyword_counts
                   THEN keyword_counts[keyword] ELSE 0) + 1
             counts == [k \in DOMAIN keyword_counts \cup {keyword} |->
                          IF k = keyword THEN n ELSE keyword_counts[k]]
         IN ScoreLoopAlt(matches, i + 1, counts,
                IF n = 1 THEN total_score + score_value
                ELSE total_score + (score_value \div 2))

RECURSIVE ScoreLoop(_, _, _, _)
ScoreLoop(matches, i, keyword_counts, total_score) ==
    IF i > Len(matches) THEN total_score
    ELSE LET keyword == matches[i][1]
             score_value == matches[i][3]
             n == (IF keyword \in DOMAIN keyword_counts
                   THEN keyword_counts[keyword] ELSE 0) + 1
             counts == [k \in DOMAIN keyword_counts \cup {keyword} |->
                          IF k = keyword THEN n ELSE keyword_counts[k]]
         IN ScoreLoop(matches, i + 1, counts,
                IF n = 1 THEN total_score + score_value
                ELSE IF n = 2 THEN total_score + (score_value \div 2)
                ELSE total_score)

CalculateKeywordScoreAlt(matches) ==
    IF matches = <<>> THEN 0
    ELSE ScoreLoop(matches, 1, <<>>, 0) - (matches[Len(matches)][3] \div 2)

CalculateKeywordScore(matches) ==
    IF matches = <<>> THEN 0 ELSE ScoreLoop(matches, 1, <<>>, 0)

-----------------------------------------------------------------------------
(* DatabaseManager: table keywords.                                        *)

\* SQLite's BINARY collation on the characters and the category names used
CharOrder == <<" ", "+", "A", "a", "b">>
CategoryOrder == <<"general", "tools">>
RankIn(order, x) == CHOOSE i \in 1..Len(order) : order[i] = x

RECURSIVE TextLess(_, _)
TextLess(s, t) ==
    IF s = <<>> THEN t # <<>>
    ELSE IF t = <<>> THEN FALSE
    ELSE IF Head(s) # Head(t)
         THEN RankIn(CharOrder, Head(s)) < RankIn(CharOrder, Head(t))
    ELSE TextLess(Tail(s), Tail(t))

\* ORDER BY category, score_value DESC, keyword
KeywordRowBefore(r, q) ==
    IF r[2] # q[2] THEN RankIn(CategoryOrder, r[2]) < RankIn(CategoryOrder, q[2])
    ELSE IF r[3] # q[3] THEN r[3] > q[3]
    ELSE TextLess(r[1], q[1])

RECURSIVE OrderedRows(_)
OrderedRows(rows) ==
    IF rows = {} THEN <<>>
    ELSE LET first == CHOOSE r \in rows :
                         \A q \in rows \ {r} : KeywordRowBefore(r, q)
         IN <<first>> \o OrderedRows(rows \ {first})

\* get_keywords() with no category: the rows in query order, or [] when
\* sqlite3.Error is caught
DbGetKeywords(table, failed) == IF failed THEN <<>> ELSE OrderedRows(table)

\* add_keyword: INSERT OR REPLACE on the UNIQUE column keyword, lower-cased
DbAddKeyword(table, keyword, category, score_value) ==
    {r \in table : r[1] # Lower(keyword)}
        \cup {<<Lower(keyword), category, score_value>>}

\* remove_keyword: DELETE ... WHERE keyword = lower(keyword)
DbRemoveKeyword(table, keyword) == {r \in table : r[1] # Lower(keyword)}

-----------------------------------------------------------------------------
(* KeywordMatcher._get_keywords.                                           *)

CacheTTL == 300

CacheStaleAlt(cache, stamp, t) ==
    cache = None \/ stamp = None \/ (t - stamp.value) >= CacheTTL
\* the condition of the if in _get_keywords
CacheStale(cache, stamp, t) ==
    cache = None \/ stamp = None \/ (t - stamp.value) > CacheTTL

\* one call of _get_keywords: the list it returns, the cache fields it leaves,
\* and whether it read the table
GetKeywords(failed) ==
    IF CacheStale(keyword_cache, cache_timestamp, now)
    THEN [list |-> DbGetKeywords(keywords, failed),
          cache |-> Some(DbGetKeywords(keywords, failed)),
          stamp |-> Some(now),
          did |-> IF failed THEN "read_failed" ELSE "read_ok"]
    ELSE [list |-> keyword_cache.value,
          cache |-> keyword_cache,
          stamp |-> cache_timestamp,
          did |-> "hit"]

-----------------------------------------------------------------------------
(* Post and ScoringResult.                                                 *)

\* A Post is a record [platform, post_id, title, content, timestamp, score,
\* keyword_matches, has_external_links]; author and url are carried along
\* unread by the pipeline and are left out.

SecondsPerMinute == 60
SecondsPerHour == 60 * SecondsPerMinute
RecentMinutes == 60
DefaultMaxAgeHours == 24
DefaultMinScore == 1

\* int(x / d) for d > 0: Python's int() truncates toward zero
TruncDiv(x, d) == IF x >= 0 THEN x \div d ELSE -((-x) \div d)

\* Post.age_minutes, read at time t
AgeMinutes(post, t) == TruncDiv(t - post.timestamp, SecondsPerMinute)

IsRecentAlt(post, t) == AgeMinutes(post, t) <= RecentMinutes
\* Post.is_recent, read at time t
IsRecent(post, t) == AgeMinutes(post, t) < RecentMinutes

Range(seq) == {seq[i] : i \in 1..Len(seq)}

\* the orders in which list(set(...)) can enumerate a set
Enumerations(S) ==
    {f \in [1..Cardinality(S) -> S] : \A i, j \in DOMAIN f : i # j => f[i] # f[j]}

UniqueMatchesAlt(all_matches) == {all_matches}
\* unique_matches = list(set(all_matches)), in whatever order the set gives
UniqueMatches(all_matches) == Enumerations(Range(all_matches))

FinalScoreAlt(keyword_score, time_bonus, link_penalty) ==
    IF keyword_score + time_bonus + link_penalty < 0 THEN 0
    ELSE keyword_score + time_bonus + link_penalty
\* final_score of score_post
FinalScore(keyword_score, time_bonus, link_penalty) ==
    keyword_score + time_bonus + link_penalty

\* score_post from "Calculate keyword score" on: unique_matches is
\* list(set(title_matches + content_matches)) in the order the set gave, t the
\* clock. The post of the result is the input post as score_post leaves it.
ScorePostFrom(post, unique_matches, cfg, t) ==
    LET keyword_score == CalculateKeywordScore(unique_matches)
        time_bonus == IF IsRecent(post, t) THEN cfg.recent_post_bonus ELSE 0
        link_penalty == IF post.has_external_links
                        THEN cfg.external_link_penalty ELSE 0
        final_score == FinalScore(keyword_score, time_bonus, link_penalty)
        names == [i \in 1..Len(unique_matches) |-> unique_matches[i][1]]
    IN [post |-> [post EXCEPT !.keyword_matches = names, !.score = final_score],
        keyword_score |-> keyword_score,
        time_bonus |-> time_bonus,
        link_penalty |-> link_penalty,
        final_score |-> final_score,
        matched_keywords |-> names]

\* results.sort(key=lambda x: x.final_score, reverse=True): a stable sort,
\* equal keys keep their order
RECURSIVE InsertByScoreAlt(_, _)
InsertByScoreAlt(sorted, r) ==
    IF sorted = <<>> THEN <<r>>
    ELSE IF Head(sorted).final_score > r.final_score
         THEN <<Head(sorted)>> \o InsertByScoreAlt(Tail(sorted), r)
    ELSE <<r>> \o sorted

RECURSIVE InsertByScore(_, _)
InsertByScore(sorted, r) ==
    IF sorted = <<>> THEN <<r>>
    ELSE IF Head(sorted).final_score >= r.final_score
         THEN <<Head(sorted)>> \o InsertByScore(Tail(sorted), r)
    ELSE <<r>> \o sorted

RECURSIVE SortByScore(_)
SortByScore(rs) ==
    IF rs = <<>> THEN <<>>
    ELSE InsertByScore(SortByScore(SubSeq(rs, 1, Len(rs) - 1)), rs[Len(rs)])

-----------------------------------------------------------------------------
(* PostFilter.                                                             *)

PostKeyAlt(post) == <<post.post_id>>
PostKey(post) == <<post.platform, post.post_id>>

RECURSIVE DedupLoopAlt(_, _)
DedupLoopAlt(posts, seen) ==
    IF posts = <<>> THEN <<>>
    ELSE IF PostKey(Head(posts)) \in seen THEN DedupLoopAlt(Tail(posts), {})
    ELSE <<Head(posts)>> \o DedupLoopAlt(Tail(posts), seen \cup {PostKey(Head(posts))})

RECURSIVE DedupLoop(_, _)
DedupLoop(posts, seen) ==
    IF posts = <<>> THEN <<>>
    ELSE IF PostKey(Head(posts)) \in seen THEN DedupLoop(Tail(posts), seen)
    ELSE <<Head(posts)>> \o DedupLoop(Tail(posts), seen \cup {PostKey(Head(posts))})

FilterDuplicates(posts) == DedupLoop(posts, {})

IsPostProcessedAlt(table, platform, post_id) == FALSE
\* is_post_processed: SELECT 1 FROM posts WHERE platform = ? AND post_id = ?
IsPostProcessed(table, platform, post_id) ==
    \E row \in table : row.platform = platform /\ row.post_id = post_id

FilterProcessed(posts, table) ==
    SelectSeq(posts, LAMBDA p : ~IsPostProcessed(table, p.platform, p.post_id))

\* filter_processed from post i on; failing holds the indexes whose
\* is_post_processed hits sqlite3.Error (it logs and returns False)
RECURSIVE ProcessedLoop(_, _, _, _)
ProcessedLoop(posts, i, failing, table) ==
    IF i > Len(posts) THEN <<>>
    ELSE LET processed == IF i \in failing THEN FALSE
                          ELSE IsPostProcessed(table, posts[i].platform,
                                               posts[i].post_id)
         IN (IF processed THEN <<>> ELSE <<posts[i]>>)
                \o ProcessedLoop(posts, i + 1, failing, table)

FilterByAgeAlt(posts, max_age_hours, t) ==
    SelectSeq(posts, LAMBDA p : p.timestamp > t - max_age_hours * SecondsPerHour)
FilterByAge(posts, max_age_hours, t) ==
    SelectSeq(posts, LAMBDA p : p.timestamp >= t - max_age_hours * SecondsPerHour)

FilterByScoreAlt(scoring_results, min_score) ==
    SelectSeq(scoring_results, LAMBDA r : r.final_score >= -min_score)
FilterByScore(scoring_results, min_score) ==
    SelectSeq(scoring_results, LAMBDA r : r.final_score >= min_score)

\* lst[:n] of Python, n of either sign
SlicePrefix(lst, n) ==
    IF n >= 0 THEN SubSeq(lst, 1, IF n < Len(lst) THEN n ELSE Len(lst))
    ELSE SubSeq(lst, 1, Len(lst) + n)

FilterTopPostsAlt(scoring_results, max_posts) == scoring_results
FilterTopPosts(scoring_results, max_posts) ==
    IF Len(scoring_results) <= max_posts THEN scoring_results
    ELSE SlicePrefix(scoring_results, max_posts)

\* a post object has the attribute (a missing attribute is None in the code)
Has(post, field) == field \in DOMAIN post

\* the indexes, in the list filter_processed is given, of the posts whose
\* lookup fails when the lookups of the keys in failing_keys fail
FailingLookups(posts, failing_keys) ==
    IF failing_keys = {} THEN {}
    ELSE {i \in 1..Len(posts) : PostKey(posts[i]) \in failing_keys}

\* what is_post_processed logs for them
LookupErrors(posts, failing_keys) ==
    IF failing_keys = {} THEN {}
    ELSE {[op |-> "is_post_processed", key |-> PostKey(posts[i])] :
             i \in FailingLookups(posts, failing_keys)}

PreFiltersAlt(posts, failing_keys, table, t) ==
    FilterDuplicates(FilterByAge(
        ProcessedLoop(posts, 1, FailingLookups(posts, failing_keys), table),
        DefaultMaxAgeHours, t))
\* the filter stage of process_posts: filter_duplicates, filter_processed,
\* filter_by_age with its default, each on what the one before returned
PreFilters(posts, failing_keys, table, t) ==
    LET unique == FilterDuplicates(posts)
    IN FilterByAge(
           IF failing_keys = {} THEN FilterProcessed(unique, table)
           ELSE ProcessedLoop(unique, 1, FailingLookups(unique, failing_keys),
                              table),
           DefaultMaxAgeHours, t)

\* the exception that leaves the filter stage, none of the three filters
\* catching any: filter_duplicates reads post.platform.value of every post it
\* is given, filter_by_age compares post.timestamp of every post the two
\* filters before it have left
FilterStageRaises(posts, failing_keys, table) ==
    IF \A i \in 1..Len(posts) : {"platform", "timestamp"} \subseteq DOMAIN posts[i]
    THEN "none"
    ELSE IF \E i \in 1..Len(posts) : ~Has(posts[i], "platform")
    THEN "AttributeError"
    ELSE LET unique == FilterDuplicates(posts)
             unprocessed == ProcessedLoop(unique, 1,
                                FailingLookups(unique, failing_keys), table)
         IN IF \E i \in 1..Len(unprocessed) : ~Has(unprocessed[i], "timestamp")
            THEN "TypeError"
            ELSE "none"

EarlyReturnAlt(filtered_posts) == Len(filtered_posts) <= 1
\* if not filtered_posts: return []
EarlyReturn(filtered_posts) == filtered_posts = <<>>

-----------------------------------------------------------------------------
(* DatabaseManager: tables posts and scoring_history.                      *)

\* save_post: INSERT OR REPLACE on UNIQUE(platform, post_id); the new row takes
\* the next AUTOINCREMENT id and, as processed_at, SQLite's CURRENT_TIMESTAMP
\* t, which is UTC
DbSavePost(table, rowid, result, t) ==
    {row \in table : <<row.platform, row.post_id>> # PostKey(result.post)}
        \cup {[id |-> rowid,
               platform |-> result.post.platform,
               post_id |-> result.post.post_id,
               title |-> result.post.title,
               content |-> result.post.content,
               score |-> result.final_score,
               post_timestamp |-> result.post.timestamp,
               processed_at |-> t]}

HistoryRow(rowid, result) ==
    [post_id |-> rowid,
     keyword_matches |-> result.matched_keywords,
     base_score |-> result.keyword_score,
     time_bonus |-> result.time_bonus,
     link_penalty |-> result.link_penalty,
     final_score |-> result.final_score]

RECURSIVE SaveLoopAlt(_, _, _, _, _)
SaveLoopAlt(scoring_results, i, failing, db, t) ==
    IF i > Len(scoring_results) THEN db
    ELSE IF i \in failing THEN db
    ELSE SaveLoopAlt(scoring_results, i + 1, failing,
            [posts |-> DbSavePost(db.posts, db.rowid, scoring_results[i], t),
             history |-> db.history \cup {HistoryRow(db.rowid, scoring_results[i])},
             rowid |-> db.rowid + 1],
            t)

\* _save_posts_to_db from result i on; failing holds the indexes whose
\* save_post hits sqlite3.Error (it returns None and no history is written)
RECURSIVE SaveLoop(_, _, _, _, _)
SaveLoop(scoring_results, i, failing, db, t) ==
    IF i > Len(scoring_results) THEN db
    ELSE IF i \in failing THEN SaveLoop(scoring_results, i + 1, failing, db, t)
    ELSE SaveLoop(scoring_results, i + 1, failing,
            [posts |-> DbSavePost(db.posts, db.rowid, scoring_results[i], t),
             history |-> db.history \cup {HistoryRow(db.rowid, scoring_results[i])},
             rowid |-> db.rowid + 1],
            t)

\* get_recent_posts: WHERE processed_at > since AND score >= min_score
\* ORDER BY score DESC, post_timestamp DESC
RecentRowBefore(r, q) ==
    IF r.score # q.score THEN r.score > q.score
    ELSE IF r.post_timestamp # q.post_timestamp
         THEN r.post_timestamp > q.post_timestamp
    ELSE r.id < q.id

RECURSIVE OrderedRecent(_)
OrderedRecent(rows) ==
    IF rows = {} THEN <<>>
    ELSE LET first == CHOOSE r \in rows :
                         \A q \in rows \ {r} : RecentRowBefore(r, q)
         IN <<first>> \o OrderedRecent(rows \ {first})

DbGetRecentPosts(table, hours, min_score, t) ==
    OrderedRecent({row \in table :
        row.processed_at > t - hours * SecondsPerHour /\ row.score >= min_score})

\* the ScoringResult get_top_opportunities builds from one row
OpportunityOf(row) ==
    [post |-> [platform |-> row.platform,
               post_id |-> row.post_id,
               title |-> row.title,
               content |-> row.content,
               timestamp |-> row.post_timestamp,
               score |-> row.score,
               keyword_matches |-> <<>>,
               has_external_links |-> FALSE],
     keyword_score |-> row.score,
     time_bonus |-> 0,
     link_penalty |-> 0,
     final_score |-> row.score,
     matched_keywords |-> <<>>]

-----------------------------------------------------------------------------
(* Inputs of the model.                                                    *)

Ta == <<"a">>
Tb == <<"b">>

\* rows add_keyword is called with
AddedKeywords == {<<<<"A">>, "tools", 3>>, <<Tb, "tools", 8>>}

\* the keyword table the engine starts on
InitialKeywords == {<<Ta, "tools", 8>>, <<Tb, "general", 3>>}

\* config.scoring: the defaults of ScoringConfig, and a run capped at one post
ConfigChoices ==
    {[recent_post_bonus |-> 2, external_link_penalty |-> -1, max_posts_per_run |-> 20],
     [recent_post_bonus |-> 2, external_link_penalty |-> -1, max_posts_per_run |-> 1]}

\* steps of the clock, in seconds
TickSteps == {CacheTTL, CacheTTL + 1}

NewPost(platform, post_id, title, content, timestamp, links) ==
    [platform |-> platform, post_id |-> post_id, title |-> title,
     content |-> content, timestamp |-> timestamp, score |-> 0,
     keyword_matches |-> <<>>, has_external_links |-> links]

\* posts the watchers hand over; the clock starts at 0, so a timestamp is minus
\* the post's age at the start
PostCatalog ==
    {NewPost("reddit", "p1", <<"A", " ", "b">>, Ta,
             CacheTTL + 1 - RecentMinutes * SecondsPerMinute, FALSE),
     NewPost("reddit", "p2", <<"b", "a">>, <<>>,
             -(DefaultMaxAgeHours * SecondsPerHour), TRUE),
     NewPost("facebook", "p1", <<>>, Tb, 0, FALSE),
     NewPost("reddit", "p1", Tb, Tb,
             -((DefaultMaxAgeHours + 1) * SecondsPerHour), TRUE)}

PostLists == SeqsUpTo(PostCatalog, MaxBatch)

-----------------------------------------------------------------------------
(* The engine.                                                             *)

Init ==
    /\ now = 0
    /\ keywords = InitialKeywords
    /\ posts_table = {}
    /\ scoring_history = {}
    /\ next_rowid = 1
    /\ keyword_cache = None
    /\ cache_timestamp = None
    /\ config \in ConfigChoices
    /\ pc = "idle"
    /\ batch = <<>>
    /\ idx = 0
    /\ title_matches = <<>>
    /\ results = <<>>
    /\ returned = [op |-> "none", value |-> <<>>]
    /\ runs = 0
    /\ env_steps = 0
    /\ last_get = "none"
    /\ store_at_capture = None
    /\ batch_snapshots = {}
    /\ score_errors = {}
    /\ db_errors = {}
    /\ utc_offset = 0
    /\ fn_input = <<>>
    /\ fn_output = None

\* the clock moves on while the engine waits or works
Tick(d) ==
    /\ env_steps < MaxEnvSteps
    /\ now' = now + d
    /\ env_steps' = env_steps + 1
    /\ last_get' = "none"
    /\ UNCHANGED <<keywords, posts_table, scoring_history, next_rowid, keyword_cache,
                   cache_timestamp, config, pc, batch, idx, title_matches, results,
                   returned, runs, store_at_capture, batch_snapshots,
                   score_errors, db_errors, utc_offset,
                   fn_input, fn_output>>

\* add_keyword, from the keyword manager
AddKeyword(keyword, category, score_value) ==
    /\ env_steps < MaxEnvSteps
    /\ keywords' = DbAddKeyword(keywords, keyword, category, score_value)
    /\ env_steps' = env_steps + 1
    /\ last_get' = "none"
    /\ UNCHANGED <<now, posts_table, scoring_history, next_rowid, keyword_cache,
                   cache_timestamp, config, pc, batch, idx, title_matches, results,
                   returned, runs, store_at_capture, batch_snapshots,
                   score_errors, db_errors, utc_offset,
                   fn_input, fn_output>>

\* remove_keyword, when the row exists
RemoveKeyword(keyword) ==
    /\ env_steps < MaxEnvSteps
    /\ \E r \in keywords : r[1] = Lower(keyword)
    /\ keywords' = DbRemoveKeyword(keywords, keyword)
    /\ env_steps' = env_steps + 1
    /\ last_get' = "none"
    /\ UNCHANGED <<now, posts_table, scoring_history, next_rowid, keyword_cache,
                   cache_timestamp, config, pc, batch, idx, title_matches, results,
                   returned, runs, store_at_capture, batch_snapshots,
                   score_errors, db_errors, utc_offset,
                   fn_input, fn_output>>

\* process_posts up to the call of score_posts: the three filters and the
\* early return; failing_keys are the post keys whose processed-lookup fails
\* during the call; whether the argument is kept on record (fn_input) is left
\* to the specification.  When the filter stage raises, the call ends with the
\* exception and returns no value (the record keeps an empty value field)
ProcessPosts(posts, failing_keys) ==
    /\ pc = "idle"
    /\ runs < MaxRuns
    /\ runs' = runs + 1
    /\ LET raised == FilterStageRaises(posts, failing_keys, posts_table)
       IN IF raised # "none"
          THEN /\ pc' = "idle"
               /\ batch' = <<>>
               /\ idx' = 0
               /\ returned' = [op |-> "process_posts", value |-> <<>>,
                               raised |-> raised]
               /\ db_errors' = IF raised = "AttributeError" THEN {}
                               ELSE LookupErrors(FilterDuplicates(posts),
                                                 failing_keys)
          ELSE LET filtered_posts ==
                       PreFilters(posts, failing_keys, posts_table, now)
               IN /\ db_errors' = LookupErrors(FilterDuplicates(posts),
                                               failing_keys)
                  /\ IF EarlyReturn(filtered_posts)
                     THEN /\ pc' = "idle"
                          /\ batch' = <<>>
                          /\ idx' = 0
                          /\ returned' = [op |-> "process_posts", value |-> <<>>]
                     ELSE /\ pc' = "title"
                          /\ batch' = filtered_posts
                          /\ idx' = 1
                          /\ returned' = [op |-> "none", value |-> <<>>]
    /\ results' = <<>>
    /\ title_matches' = <<>>
    /\ batch_snapshots' = {}
    /\ last_get' = "none"
    /\ UNCHANGED <<now, keywords, posts_table, scoring_history, next_rowid,
                   keyword_cache, cache_timestamp, config, env_steps,
                   store_at_capture, score_errors, utc_offset, fn_output>>

\* the effect of one find_matches(text) on the matcher: g is what its
\* _get_keywords call did (text is not empty)
MatcherAfter(g) ==
    /\ keyword_cache' = g.cache
    /\ cache_timestamp' = g.stamp
    /\ last_get' = g.did
    /\ store_at_capture' = IF g.did = "hit" THEN store_at_capture ELSE Some(keywords)
    /\ batch_snapshots' = batch_snapshots \cup {g.list}

MatcherUntouched ==
    /\ last_get' = "none"
    /\ UNCHANGED <<keyword_cache, cache_timestamp, store_at_capture, batch_snapshots>>

\* score_post, first statement: find_matches(post.title)
ScoreTitle ==
    /\ pc = "title"
    /\ LET post == batch[idx]
       IN IF post.title = <<>>
          THEN /\ title_matches' = <<>>
               /\ MatcherUntouched
          ELSE \E failed \in BOOLEAN :
                  LET g == GetKeywords(failed)
                  IN /\ title_matches' = FindMatchesIn(post.title, g.list)
                     /\ MatcherAfter(g)
    /\ pc' = "content"
    /\ UNCHANGED <<now, keywords, posts_table, scoring_history, next_rowid, config,
                   batch, idx, results, returned, runs, env_steps,
                   score_errors, db_errors, utc_offset,
                   fn_input, fn_output>>

\* score_post, from find_matches(post.content) to its return, and the append
\* of score_posts
ScoreContent ==
    /\ pc = "content"
    /\ LET post == batch[idx]
       IN \E failed \in BOOLEAN :
            LET g == GetKeywords(failed)
                content_matches == IF post.content = <<>> THEN <<>>
                                   ELSE FindMatchesIn(post.content, g.list)
                all_matches == title_matches \o content_matches
            IN /\ IF post.content = <<>> THEN MatcherUntouched ELSE MatcherAfter(g)
               /\ \E unique_matches \in UniqueMatches(all_matches) :
                    LET result == ScorePostFrom(post, unique_matches, config, now)
                    IN /\ results' = Append(results, result)
                       /\ batch' = [batch EXCEPT ![idx] = result.post]
    /\ title_matches' = <<>>
    /\ idx' = idx + 1
    /\ pc' = IF idx = Len(batch) THEN "scored" ELSE "title"
    /\ UNCHANGED <<now, keywords, posts_table, scoring_history, next_rowid, config,
                   returned, runs, env_steps, score_errors, db_errors, utc_offset,
                   fn_input, fn_output>>

\* the sort of score_posts, then process_posts from filter_by_score to its
\* return, where the locals of the run go out of scope; what is on record of
\* the argument (fn_input) is left to the specification
FinishRun ==
    /\ pc = "scored"
    /\ LET scoring_results ==
            FilterTopPosts(FilterByScore(SortByScore(results), DefaultMinScore),
                           config.max_posts_per_run)
       IN \E failing \in SUBSET (1..Len(scoring_results)) :
            LET db == SaveLoop(scoring_results, 1, failing,
                               [posts |-> posts_table, history |-> scoring_history,
                                rowid |-> next_rowid], now - utc_offset)
            IN /\ db_errors' = db_errors \cup
                      {[op |-> "save_post", key |-> PostKey(scoring_results[i].post)] :
                          i \in failing}
               /\ posts_table' = db.posts
               /\ scoring_history' = db.history
               /\ next_rowid' = db.rowid
               /\ returned' = [op |-> "process_posts", value |-> scoring_results]
    /\ pc' = "idle"
    /\ batch' = <<>>
    /\ idx' = 0
    /\ results' = <<>>
    /\ batch_snapshots' = {}
    /\ last_get' = "none"
    /\ UNCHANGED <<now, keywords, keyword_cache, cache_timestamp, config,
                   title_matches, runs, env_steps, store_at_capture,
                   score_errors, utc_offset, fn_output>>

\* get_top_opportunities(hours, min_score); failed: get_recent_posts hits
\* sqlite3.Error (it logs and returns []).  since_time is the local
\* datetime.now() minus hours, compared with the rows' processed_at as it is;
\* whether the arguments are kept on record (fn_input) is left to the
\* specification
GetTopOpportunities(hours, min_score, failed) ==
    /\ pc = "idle"
    /\ runs < MaxRuns
    /\ runs' = runs + 1
    /\ LET recent_posts_data ==
               IF failed THEN <<>>
               ELSE DbGetRecentPosts(posts_table, hours, min_score, now)
       IN returned' = [op |-> "get_top_opportunities",
                       value |-> [i \in 1..Len(recent_posts_data) |->
                                    OpportunityOf(recent_posts_data[i])]]
    /\ db_errors' = IF failed THEN {[op |-> "get_recent_posts", key |-> <<>>]}
                    ELSE {}
    /\ last_get' = "none"
    /\ UNCHANGED <<now, keywords, posts_table, scoring_history, next_rowid,
                   keyword_cache, cache_timestamp, config, pc, batch, idx,
                   title_matches, results, env_steps, store_at_capture,
                   batch_snapshots, score_errors, utc_offset, fn_output>>

Next ==
    \/ \E d \in TickSteps : Tick(d)
    \/ \E k \in AddedKeywords : AddKeyword(k[1], k[2], k[3])
    \/ \E keyword \in {Ta} : RemoveKeyword(keyword)
    \/ \E posts \in PostLists : ProcessPosts(posts, {}) /\ UNCHANGED fn_input
    \/ ScoreTitle
    \/ ScoreContent
    \/ FinishRun /\ UNCHANGED fn_input
    \/ \E min_score \in {DefaultMinScore, 5} :
          GetTopOpportunities(DefaultMaxAgeHours, min_score, FALSE)
             /\ UNCHANGED fn_input

Spec == Init /\ [][Next]_vars

-----------------------------------------------------------------------------
(* process_posts runs with the caller's post list on record: the posts of  *)
(* the list are the objects score_post writes to, so the caller sees the   *)
(* score and keyword_matches of every post that was scored.                *)

\* the caller's list after the run: the posts that went through the filters
\* (the first post of each key that is in batch) are the scored objects
WrittenBack(posts, scored) ==
    [i \in 1..Len(posts) |->
        IF /\ \A j \in 1..(i - 1) : PostKey(posts[j]) # PostKey(posts[i])
           /\ \E b \in Range(scored) : PostKey(b) = PostKey(posts[i])
        THEN CHOOSE b \in Range(scored) : PostKey(b) = PostKey(posts[i])
        ELSE posts[i]]

\* the clock stands still over the runs: what a run does with the caller's
\* list is a matter of the list, the post store and the configuration
PipelineNext ==
    \/ \E posts \in SeqsUpTo(PostCatalog, MaxListLen) :
          ProcessPosts(posts, {}) /\ fn_input' = posts
    \/ ScoreTitle
    \/ ScoreContent
    \/ FinishRun /\ fn_input' = WrittenBack(fn_input, batch)

SpecPipeline == Init /\ [][PipelineNext]_vars

-----------------------------------------------------------------------------
(* process_posts on lists that hold malformed posts, with processed-lookups *)
(* that fail.                                                               *)

\* post with one required attribute missing
Lacking(post, field) == [f \in DOMAIN post \ {field} |-> post[f]]

\* a post without platform and a post without timestamp, each otherwise a
\* post that matches a keyword and is new
MalformedPosts ==
    {Lacking(NewPost("reddit", "p3", Ta, <<>>, 0, FALSE), "platform"),
     Lacking(NewPost("reddit", "p1", Ta, <<>>, 0, FALSE), "timestamp")}

FaultLists == SeqsUpTo(PostCatalog \cup MalformedPosts, MaxBatch)

\* the keys whose processed-lookup may fail
FaultKeys == {<<"reddit", "p1">>, <<"facebook", "p1">>}

\* fn_input keeps the list as it was handed to the last call
FaultNext ==
    \/ \E posts \in FaultLists, failing_keys \in SUBSET FaultKeys :
          ProcessPosts(posts, failing_keys) /\ fn_input' = posts
    \/ ScoreTitle
    \/ ScoreContent
    \/ FinishRun /\ UNCHANGED fn_input

SpecFaults == Init /\ [][FaultNext]_vars

-----------------------------------------------------------------------------
(* get_top_opportunities over what earlier runs have persisted, the process *)
(* running in a time zone of its own.                                       *)

\* local time minus UTC: UTC, two hours east of it, two hours west of it
UtcOffsets == {0, 2 * SecondsPerHour, -(2 * SecondsPerHour)}

\* time between a run and a query
QueryTicks == {SecondsPerHour \div 2, SecondsPerHour}

HoursChoices == {1, DefaultMaxAgeHours}

RecentInit ==
    /\ now = 0
    /\ keywords = InitialKeywords
    /\ posts_table = {}
    /\ scoring_history = {}
    /\ next_rowid = 1
    /\ keyword_cache = None
    /\ cache_timestamp = None
    /\ config \in {c \in ConfigChoices : c.max_posts_per_run = 20}
    /\ pc = "idle"
    /\ batch = <<>>
    /\ idx = 0
    /\ title_matches = <<>>
    /\ results = <<>>
    /\ returned = [op |-> "none", value |-> <<>>]
    /\ runs = 0
    /\ env_steps = 0
    /\ last_get = "none"
    /\ store_at_capture = None
    /\ batch_snapshots = {}
    /\ score_errors = {}
    /\ db_errors = {}
    /\ utc_offset \in UtcOffsets
    /\ fn_input = <<>>
    /\ fn_output = None

\* fn_input keeps the arguments of the last get_top_opportunities call
RecentNext ==
    \/ \E d \in QueryTicks : Tick(d)
    \/ \E posts \in PostLists : ProcessPosts(posts, {}) /\ UNCHANGED fn_input
    \/ ScoreTitle
    \/ ScoreContent
    \/ FinishRun /\ UNCHANGED fn_input
    \/ \E hours \in HoursChoices, min_score \in {DefaultMinScore, 5},
         failed \in BOOLEAN :
          GetTopOpportunities(hours, min_score, failed)
             /\ fn_input' = <<hours, min_score>>

SpecRecent == RecentInit /\ [][RecentNext]_vars

-----------------------------------------------------------------------------
(* Direct calls of KeywordMatcher.find_matches on a matcher whose cache is *)
(* fresh: every cached keyword list against every text.                   *)

MatchKeywordRows ==
    {<<Ta, "tools", 8>>,
     <<<<"a", "b">>, "tools", 8>>,
     <<<<"a", " ", "b">>, "tools", 3>>,
     <<<<"a", "+">>, "general", 8>>,
     <<Tb, "general", 3>>}

MatchInit ==
    /\ now = 0
    /\ keywords \in SUBSET MatchKeywordRows
    /\ posts_table = {}
    /\ scoring_history = {}
    /\ next_rowid = 1
    /\ keyword_cache = Some(DbGetKeywords(keywords, FALSE))
    /\ cache_timestamp = Some(now)
    /\ config \in {c \in ConfigChoices : c.max_posts_per_run = 20}
    /\ pc = "idle"
    /\ batch = <<>>
    /\ idx = 0
    /\ title_matches = <<>>
    /\ results = <<>>
    /\ returned = [op |-> "none", value |-> <<>>]
    /\ runs = 0
    /\ env_steps = 0
    /\ last_get = "none"
    /\ store_at_capture = Some(keywords)
    /\ batch_snapshots = {}
    /\ score_errors = {}
    /\ db_errors = {}
    /\ utc_offset = 0
    /\ fn_input \in SeqsUpTo(Alphabet, MaxTextLen)
    /\ fn_output = None

\* matcher.find_matches(fn_input)
CallFindMatches ==
    /\ fn_output = None
    /\ IF fn_input = <<>>
       THEN /\ fn_output' = Some(<<>>)
            /\ last_get' = "none"
            /\ UNCHANGED <<keyword_cache, cache_timestamp, store_at_capture>>
       ELSE \E failed \in BOOLEAN :
              LET g == GetKeywords(failed)
              IN /\ fn_output' = Some(FindMatchesIn(fn_input, g.list))
                 /\ keyword_cache' = g.cache
                 /\ cache_timestamp' = g.stamp
                 /\ last_get' = g.did
                 /\ store_at_capture' =
                        IF g.did = "hit" THEN store_at_capture ELSE Some(keywords)
    /\ UNCHANGED <<now, keywords, posts_table, scoring_history, next_rowid, config,
                   pc, batch, idx, title_matches, results, returned, runs,
                   env_steps, batch_snapshots, score_errors, db_errors, utc_offset, fn_input>>

MatchNext == CallFindMatches

SpecMatch == MatchInit /\ [][MatchNext]_vars

-----------------------------------------------------------------------------
(* Direct calls of KeywordMatcher.calculate_keyword_score on every match   *)
(* list.                                                                   *)

ScoredTriples == {Ta, Tb} \X {"tools"} \X {3, 8, -5}

ScoreInit ==
    /\ now = 0
    /\ keywords = InitialKeywords
    /\ posts_table = {}
    /\ scoring_history = {}
    /\ next_rowid = 1
    /\ keyword_cache = None
    /\ cache_timestamp = None
    /\ config \in {c \in ConfigChoices : c.max_posts_per_run = 20}
    /\ pc = "idle"
    /\ batch = <<>>
    /\ idx = 0
    /\ title_matches = <<>>
    /\ results = <<>>
    /\ returned = [op |-> "none", value |-> <<>>]
    /\ runs = 0
    /\ env_steps = 0
    /\ last_get = "none"
    /\ store_at_capture = None
    /\ batch_snapshots = {}
    /\ score_errors = {}
    /\ db_errors = {}
    /\ utc_offset = 0
    /\ fn_input \in SeqsUpTo(ScoredTriples, MaxMatches)
    /\ fn_output = None

\* matcher.calculate_keyword_score(fn_input)
CallCalculateKeywordScore ==
    /\ fn_output = None
    /\ fn_output' = Some(CalculateKeywordScore(fn_input))
    /\ UNCHANGED <<engine_vars, fn_input>>

ScoreNext == CallCalculateKeywordScore

SpecScore == ScoreInit /\ [][ScoreNext]_vars

-----------------------------------------------------------------------------
(* Direct calls of PostScorer.score_posts, and of PostFilter.filter_by_score *)
(* and filter_top_posts on what it returned, as process_posts chains them. *)

\* the catalog and a post 23 hours old whose score ties with the score of the
\* post 25 hours old
ListedPosts ==
    PostCatalog \cup
        {NewPost("facebook", "p2", Tb, <<>>,
                 -((DefaultMaxAgeHours - 1) * SecondsPerHour), TRUE)}

ListedLists == SeqsUpTo(ListedPosts, MaxListLen)

\* values of max_posts_per_run: load_config takes any integer of the file
MaxPostsChoices == {-1, 0, 2, 20}

RankConfigs ==
    {[recent_post_bonus |-> 2, external_link_penalty |-> -1, max_posts_per_run |-> m] :
        m \in MaxPostsChoices}

RankInit ==
    /\ now = 0
    /\ keywords = InitialKeywords
    /\ posts_table = {}
    /\ scoring_history = {}
    /\ next_rowid = 1
    /\ keyword_cache = Some(DbGetKeywords(keywords, FALSE))
    /\ cache_timestamp = Some(now)
    /\ config \in RankConfigs
    /\ pc = "idle"
    /\ batch = <<>>
    /\ idx = 0
    /\ title_matches = <<>>
    /\ results = <<>>
    /\ returned = [op |-> "none", value |-> <<>>]
    /\ runs = 0
    /\ env_steps = 0
    /\ last_get = "none"
    /\ store_at_capture = Some(keywords)
    /\ batch_snapshots = {}
    /\ score_errors = {}
    /\ db_errors = {}
    /\ utc_offset = 0
    /\ fn_input \in ListedLists
    /\ fn_output = None

\* scorer.score_posts(fn_input) up to the first score_post; an empty list falls
\* through the loop and the sort to the return
CallScorePosts ==
    /\ pc = "idle"
    /\ fn_output = None
    /\ IF fn_input = <<>>
       THEN /\ fn_output' = Some([op |-> "score_posts", value |-> <<>>])
            /\ UNCHANGED <<pc, batch, idx>>
       ELSE /\ pc' = "title"
            /\ batch' = fn_input
            /\ idx' = 1
            /\ UNCHANGED fn_output
    /\ results' = <<>>
    /\ score_errors' = {}
    /\ UNCHANGED <<db_errors, utc_offset>>
    /\ last_get' = "none"
    /\ UNCHANGED <<now, keywords, posts_table, scoring_history, next_rowid,
                   keyword_cache, cache_timestamp, config, title_matches,
                   returned, runs, env_steps, store_at_capture, batch_snapshots,
                   fn_input>>

CaughtAtAlt(i, n) == [pc |-> "scored", idx |-> n + 1]
\* the except clause of score_posts on post i of n: log, then on to the next
\* post of the loop
CaughtAt(i, n) == [pc |-> IF i = n THEN "scored" ELSE "title", idx |-> i + 1]

\* score_post raises (a field of the post has the wrong type: a timestamp that
\* is not a datetime makes post.is_recent raise TypeError) and score_posts
\* catches it; nothing was appended and the post was not updated
ScorePostRaises ==
    /\ pc \in {"title", "content"}
    /\ score_errors' = score_errors \cup {idx}
    /\ UNCHANGED <<db_errors, utc_offset>>
    /\ pc' = CaughtAt(idx, Len(batch)).pc
    /\ idx' = CaughtAt(idx, Len(batch)).idx
    /\ title_matches' = <<>>
    /\ last_get' = "none"
    /\ UNCHANGED <<now, keywords, posts_table, scoring_history, next_rowid,
                   keyword_cache, cache_timestamp, config, batch, results,
                   returned, runs, env_steps, store_at_capture, batch_snapshots,
                   fn_input, fn_output>>

\* score_posts from the sort to its return
ReturnScorePosts ==
    /\ pc = "scored"
    /\ fn_output' = Some([op |-> "score_posts", value |-> SortByScore(results)])
    /\ pc' = "idle"
    /\ last_get' = "none"
    /\ UNCHANGED <<now, keywords, posts_table, scoring_history, next_rowid,
                   keyword_cache, cache_timestamp, config, batch, idx,
                   title_matches, results, returned, runs, env_steps,
                   store_at_capture, batch_snapshots, score_errors, db_errors, utc_offset, fn_input>>

\* filter.filter_by_score(scoring_results) on the list score_posts returned
CallFilterByScore ==
    /\ fn_output # None
    /\ fn_output.value.op = "score_posts"
    /\ fn_input' = fn_output.value.value
    /\ fn_output' = Some([op |-> "filter_by_score",
                          value |-> FilterByScore(fn_output.value.value,
                                                  DefaultMinScore)])
    /\ UNCHANGED engine_vars

\* filter.filter_top_posts(scoring_results) on the list the step before returned
CallFilterTopPosts ==
    /\ fn_output # None
    /\ fn_output.value.op \in {"score_posts", "filter_by_score"}
    /\ fn_input' = fn_output.value.value
    /\ fn_output' = Some([op |-> "filter_top_posts",
                          value |-> FilterTopPosts(fn_output.value.value,
                                                   config.max_posts_per_run)])
    /\ UNCHANGED engine_vars

RankNext ==
    \/ CallScorePosts
    \/ ScoreTitle
    \/ ScoreContent
    \/ ScorePostRaises
    \/ ReturnScorePosts
    \/ CallFilterByScore
    \/ CallFilterTopPosts

SpecRank == RankInit /\ [][RankNext]_vars

-----------------------------------------------------------------------------
(* Direct calls of PostFilter.filter_duplicates, filter_processed and      *)
(* filter_by_age, over a post store filled by DatabaseManager.save_post.   *)

\* the posts save_post is called for: two posts of one identity key
SavedPosts == {p \in PostCatalog : PostKey(p) = <<"reddit", "p1">>}

\* values of max_age_hours
AgeChoices == {DefaultMaxAgeHours, DefaultMaxAgeHours + 1, 1}

FilterInit ==
    /\ now = 0
    /\ keywords = InitialKeywords
    /\ posts_table = {}
    /\ scoring_history = {}
    /\ next_rowid = 1
    /\ keyword_cache = None
    /\ cache_timestamp = None
    /\ config \in {c \in ConfigChoices : c.max_posts_per_run = 20}
    /\ pc = "idle"
    /\ batch = <<>>
    /\ idx = 0
    /\ title_matches = <<>>
    /\ results = <<>>
    /\ returned = [op |-> "none", value |-> <<>>]
    /\ runs = 0
    /\ env_steps = 0
    /\ last_get = "none"
    /\ store_at_capture = None
    /\ batch_snapshots = {}
    /\ score_errors = {}
    /\ db_errors = {}
    /\ utc_offset = 0
    /\ fn_input \in ListedLists
    /\ fn_output = None

\* db.save_post(platform, post_id, title, content, author, url, timestamp,
\* score) for a post, when the write succeeds
CallSavePost(post) ==
    /\ fn_output = None
    /\ next_rowid <= MaxSaves
    /\ posts_table' = DbSavePost(posts_table, next_rowid,
                                 [post |-> post, final_score |-> post.score],
                                 now - utc_offset)
    /\ next_rowid' = next_rowid + 1
    /\ UNCHANGED <<now, keywords, scoring_history, keyword_cache, cache_timestamp,
                   config, pc, batch, idx, title_matches, results, returned,
                   runs, env_steps, last_get, store_at_capture, batch_snapshots,
                   score_errors, db_errors, utc_offset, fn_input, fn_output>>

\* filter.filter_duplicates(fn_input)
CallFilterDuplicates ==
    /\ fn_output = None
    /\ fn_output' = Some([op |-> "filter_duplicates",
                          value |-> FilterDuplicates(fn_input)])
    /\ UNCHANGED <<engine_vars, fn_input>>

\* filter.filter_duplicates on the list filter_duplicates(fn_input) returned
CallFilterDuplicatesAgain ==
    /\ fn_output # None
    /\ fn_output.value.op = "filter_duplicates"
    /\ fn_output' = Some([op |-> "filter_duplicates_twice",
                          value |-> FilterDuplicates(fn_output.value.value),
                          once |-> fn_output.value.value])
    /\ UNCHANGED <<engine_vars, fn_input>>

\* filter.filter_processed(fn_input); failing are the lookups that fail
CallFilterProcessed ==
    /\ fn_output = None
    /\ \E failing \in SUBSET (1..Len(fn_input)) :
          fn_output' = Some([op |-> "filter_processed",
                             value |-> ProcessedLoop(fn_input, 1, failing,
                                                     posts_table),
                             failing |-> failing])
    /\ UNCHANGED <<engine_vars, fn_input>>

\* filter.filter_by_age(fn_input, max_age_hours)
CallFilterByAge(max_age_hours) ==
    /\ fn_output = None
    /\ fn_output' = Some([op |-> "filter_by_age",
                          value |-> FilterByAge(fn_input, max_age_hours, now),
                          max_age_hours |-> max_age_hours])
    /\ UNCHANGED <<engine_vars, fn_input>>

FilterNext ==
    \/ \E post \in SavedPosts : CallSavePost(post)
    \/ CallFilterDuplicates
    \/ CallFilterDuplicatesAgain
    \/ CallFilterProcessed
    \/ \E max_age_hours \in AgeChoices : CallFilterByAge(max_age_hours)

SpecFilter == FilterInit /\ [][FilterNext]_vars

-----------------------------------------------------------------------------
(* Properties.                                                             *)

\* every ScoringResult in sight: those score_posts has built in the run in
\* progress and those the last call returned
ResultsInSight == Range(results) \cup Range(returned.value)

\* C1: when the keyword table read fails during a cache refresh, the failure
\* reaches the caller: the matcher neither caches nor matches against an empty
\* keyword list in place of the failed read.
C1_FailedReadPropagates ==
    last_get = "read_failed" =>
        /\ keyword_cache # Some(<<>>)
        /\ <<>> \notin batch_snapshots

\* C2: within one process_posts batch all matching is done against one
\* keyword snapshot; at the least, the snapshots a batch has matched against
\* never give one keyword two weights (no mix of old and new weights).
C2_OneSnapshotPerBatch ==
    \A s1, s2 \in batch_snapshots :
        \A r1 \in Range(s1), r2 \in Range(s2) : r1[1] = r2[1] => r1[3] = r2[3]

\* C3: a call of _get_keywords reads the table and replaces the cached
\* snapshot and its timestamp exactly when no snapshot is cached or the cached
\* one was captured more than 300 seconds ago; any other call leaves both
\* untouched and answers from the cache, whatever the table holds by then.
C3_RefreshExactlyWhenStale ==
    [][last_get' # "none" =>
        LET stale == \/ keyword_cache = None
                     \/ now - cache_timestamp.value > CacheTTL
            read == last_get' \in {"read_ok", "read_failed"}
        IN /\ read <=> stale
           /\ read => /\ cache_timestamp' = Some(now)
                      /\ keyword_cache' =
                            Some(IF last_get' = "read_ok"
                                 THEN OrderedRows(keywords) ELSE <<>>)
           /\ ~read => /\ keyword_cache' = keyword_cache
                       /\ cache_timestamp' = cache_timestamp
           /\ pc \in {"title", "content"} =>
                 keyword_cache'.value \in batch_snapshots']_vars

\* C3 witness: a call answered from a snapshot captured exactly 300 seconds
\* ago although the table has changed since
C3_Witness ==
    /\ last_get = "hit"
    /\ now - cache_timestamp.value = CacheTTL
    /\ keyword_cache.value # OrderedRows(keywords)

\* the offsets at which keyword stands in text as whole words: the characters
\* next to the occurrence, if any, are not word characters
WholeWordOffsets(keyword, text) ==
    {i \in 0..(Len(text) - Len(keyword)) :
        /\ \A j \in 1..Len(keyword) : text[i + j] = keyword[j]
        /\ i = 0 \/ text[i] \notin WordChars
        /\ i + Len(keyword) = Len(text) \/ text[i + Len(keyword) + 1] \notin WordChars}

CountIn(seq, x) == Cardinality({i \in 1..Len(seq) : seq[i] = x})

\* C4: for every cached keyword list and every non-empty text, find_matches
\* returns a keyword exactly when it stands in the lower-cased text as whole
\* words.
C4_WholeWordExactly ==
    (fn_output # None /\ fn_input # <<>>) =>
        \A row \in Range(keyword_cache.value) :
            row \in Range(fn_output.value)
                <=> WholeWordOffsets(row[1], Lower(fn_input)) # {}

\* C5: find_matches returns one entry per occurrence: a keyword (here one that
\* begins and ends with a letter) standing k times as a whole word in the text
\* is k times in the returned list.
C5_OneEntryPerOccurrence ==
    fn_output # None =>
        \A row \in Range(keyword_cache.value) :
            (row[1][1] \in WordChars /\ row[1][Len(row[1])] \in WordChars) =>
                CountIn(fn_output.value, row)
                    = Cardinality(WholeWordOffsets(row[1], Lower(fn_input)))

\* floor(w / 2), by its definition
FloorHalf(w) ==
    CHOOSE q \in (IF w < 0 THEN w ELSE -w)..(IF w < 0 THEN -w ELSE w) :
        2 * q <= w /\ w < 2 * q + 2

\* what n occurrences of a keyword of weight w are worth
Contribution(w, n) == IF n = 1 THEN w ELSE w + FloorHalf(w)

TextsOf(matches) == {matches[i][1] : i \in 1..Len(matches)}
WeightsOf(matches, text) ==
    {matches[i][3] : i \in {j \in 1..Len(matches) : matches[j][1] = text}}
TimesIn(matches, text) == Cardinality({i \in 1..Len(matches) : matches[i][1] = text})
Without(matches, text) == SelectSeq(matches, LAMBDA m : m[1] # text)

RECURSIVE SumOver(_, _)
SumOver(S, f) ==
    IF S = {} THEN 0
    ELSE LET x == CHOOSE y \in S : TRUE IN f[x] + SumOver(S \ {x}, f)

\* C6: in every match list a keyword of weight w occurring n times is worth w
\* for n = 1 and w + floor(w/2) for n >= 2; the score is the sum of these over
\* the distinct keywords, and 0 for the empty list.
C6_DiminishingReturns ==
    fn_output # None =>
        LET matches == fn_input
            score == fn_output.value
            single == {k \in TextsOf(matches) :
                          Cardinality(WeightsOf(matches, k)) = 1}
            worth == [k \in single |->
                        Contribution(CHOOSE w \in WeightsOf(matches, k) : TRUE,
                                     TimesIn(matches, k))]
        IN /\ matches = <<>> => score = 0
           /\ \A k \in single :
                 score - CalculateKeywordScore(Without(matches, k)) = worth[k]
           /\ single = TextsOf(matches) => score = SumOver(single, worth)

\* C6 witness: a keyword of odd weight occurring three times next to nothing
\* else, scored w + floor(w/2)
C6_Witness ==
    /\ fn_output # None
    /\ Len(fn_input) = 3
    /\ \E w \in {3, -5} :
          /\ \A i \in 1..3 : fn_input[i] = <<Ta, "tools", w>>
          /\ fn_output.value = w + FloorHalf(w)
          /\ fn_output.value # 3 * w

PermutationsOf(seq) ==
    {[i \in 1..Len(seq) |-> seq[f[i]]] : f \in Enumerations(1..Len(seq))}

\* C7: calculate_keyword_score gives every permutation of a match list the
\* same score, also when one keyword text carries different weights.
C7_OrderIndependent ==
    fn_output # None =>
        \A p \in PermutationsOf(fn_input) :
            CalculateKeywordScore(p) = fn_output.value

\* C8: a keyword matched in both the title and the content of a post counts
\* once: it is once in the result's matched_keywords.
C8_TitleAndContentCountOnce ==
    \A r \in ResultsInSight :
        \A i, j \in 1..Len(r.matched_keywords) :
            i # j => r.matched_keywords[i] # r.matched_keywords[j]

\* C9: every ScoringResult of score_post, process_posts and
\* get_top_opportunities has final_score = keyword_score + time_bonus +
\* link_penalty, with link_penalty the configured penalty when its post has
\* external links and 0 otherwise; nothing clamps the sum at zero.
C9_FinalScoreIsSum ==
    \A r \in ResultsInSight :
        /\ r.final_score = r.keyword_score + r.time_bonus + r.link_penalty
        /\ r.link_penalty = IF r.post.has_external_links
                            THEN config.external_link_penalty ELSE 0

\* C9 witness: a scored post with external links whose final score is below
\* zero
C9_Witness ==
    \E r \in Range(results) :
        /\ r.post.has_external_links
        /\ r.link_penalty = config.external_link_penalty
        /\ r.final_score < 0

\* C10: score_post gives the recent-post bonus exactly when the post is under
\* 60 minutes old at scoring time, and 0 otherwise.
C10_BonusUnderSixtyMinutes ==
    [][Len(results') = Len(results) + 1 =>
        LET r == results'[Len(results')]
        IN r.time_bonus =
              IF now - r.post.timestamp < RecentMinutes * SecondsPerMinute
              THEN config.recent_post_bonus ELSE 0]_vars

\* C10 witness: a post scored when exactly 60 minutes old got 0, next to a
\* post that got the bonus
C10_Witness ==
    \E r, q \in Range(results) :
        /\ now - r.post.timestamp = RecentMinutes * SecondsPerMinute
        /\ r.time_bonus = 0
        /\ q.time_bonus = config.recent_post_bonus
        /\ q.time_bonus # 0

NonIncreasing(rs) ==
    \A i \in 1..(Len(rs) - 1) : rs[i].final_score >= rs[i + 1].final_score

\* out takes its entries from distinct places of src, and entries of equal
\* final_score stand in out in the order they have in src
StableSelection(out, src) ==
    \E f \in [1..Len(out) -> 1..Len(src)] :
        /\ \A i \in DOMAIN f : out[i] = src[f[i]]
        /\ \A i, j \in DOMAIN f : i < j => f[i] # f[j]
        /\ \A i, j \in DOMAIN f :
              (i < j /\ out[i].final_score = out[j].final_score) => f[i] < f[j]

\* C11: score_posts returns every result it built, in non-increasing
\* final_score order, results of equal final_score in the order of their posts
\* in the input; filter_by_score and filter_top_posts, through which
\* process_posts passes the list, keep that order.
C11_SortedStable ==
    fn_output # None =>
        LET out == fn_output.value.value
        IN /\ NonIncreasing(out)
           /\ StableSelection(out, results)
           /\ fn_output.value.op = "score_posts" => Len(out) = Len(results)

\* C11 witness: score_posts returned a list the sort had to reorder, holding
\* two different posts of equal final_score
C11_Witness ==
    /\ fn_output # None
    /\ fn_output.value.op = "score_posts"
    /\ fn_output.value.value # results
    /\ \E i, j \in 1..Len(fn_output.value.value) :
          /\ i < j
          /\ fn_output.value.value[i].final_score
                = fn_output.value.value[j].final_score
          /\ fn_output.value.value[i].post # fn_output.value.value[j].post

\* the indexes of posts that are not in errors, in increasing order
KeptIndexes(posts, errors) ==
    SelectSeq([i \in 1..Len(posts) |-> i], LAMBDA i : i \notin errors)

\* the post as it was handed in: score_post has not written to it
SameUnscored(scored, post) ==
    [scored EXCEPT !.score = post.score,
                   !.keyword_matches = post.keyword_matches] = post

\* C12: an exception raised while scoring one post leaves out that post only:
\* while score_posts runs every post behind it has one result or one logged
\* error, and the list it returns holds exactly one result for every post
\* that did not raise, is never longer than the input and is empty for an
\* empty input.
C12_RaisingPostSkipped ==
    /\ pc \in {"title", "content"} =>
          /\ Len(results) + Cardinality(score_errors) = idx - 1
          /\ score_errors \subseteq 1..(idx - 1)
    /\ (fn_output # None /\ fn_output.value.op = "score_posts") =>
          LET out == fn_output.value.value
              kept == KeptIndexes(fn_input, score_errors)
          IN /\ Len(out) <= Len(fn_input)
             /\ fn_input = <<>> => out = <<>>
             /\ Len(results) = Len(kept)
             /\ \A k \in 1..Len(kept) :
                   SameUnscored(results[k].post, fn_input[kept[k]])
             /\ Len(out) = Len(results)
             /\ StableSelection(out, results)

\* C12 witness: score_posts returned results for posts that stand behind a
\* post whose scoring raised
C12_Witness ==
    /\ fn_output # None
    /\ fn_output.value.op = "score_posts"
    /\ \E i \in score_errors :
          \E j \in (1..Len(fn_input)) \ score_errors :
              /\ i < j
              /\ \E r \in Range(fn_output.value.value) :
                    SameUnscored(r.post, fn_input[j])

\* the post of posts at each index of indexes
PostsAt(posts, indexes) == [k \in 1..Len(indexes) |-> posts[indexes[k]]]

\* C13: filter_duplicates keeps exactly the first post of every identity key
\* (platform, post_id) of the input, in the original order; posts of one
\* post_id on different platforms are both kept.
C13_FirstOfEachKey ==
    (fn_output # None /\ fn_output.value.op = "filter_duplicates") =>
        LET later == {i \in 1..Len(fn_input) :
                         \E j \in 1..(i - 1) :
                             /\ fn_input[j].platform = fn_input[i].platform
                             /\ fn_input[j].post_id = fn_input[i].post_id}
        IN fn_output.value.value
              = PostsAt(fn_input, KeptIndexes(fn_input, later))

\* C13 witness: of three posts of one post_id, the first and the one of the
\* other platform were kept and the later post of the first one's key dropped
C13_Witness ==
    /\ fn_output # None
    /\ fn_output.value.op = "filter_duplicates"
    /\ Len(fn_input) = 3
    /\ fn_input[1] # fn_input[3]
    /\ fn_input[1].platform = fn_input[3].platform
    /\ fn_input[1].platform # fn_input[2].platform
    /\ \A i \in 2..3 : fn_input[i].post_id = fn_input[1].post_id
    /\ fn_output.value.value = <<fn_input[1], fn_input[2]>>

\* C14: filter_duplicates is idempotent: applied to its own output it returns
\* that output.
C14_Idempotent ==
    (fn_output # None /\ fn_output.value.op = "filter_duplicates_twice") =>
        fn_output.value.value = fn_output.value.once

\* C14 witness: the second application returned what the first had returned,
\* and the first had dropped two posts
C14_Witness ==
    /\ fn_output # None
    /\ fn_output.value.op = "filter_duplicates_twice"
    /\ Len(fn_input) = Len(fn_output.value.once) + 2
    /\ fn_output.value.value = fn_output.value.once

\* C15: filter_processed returns, in input order, exactly the posts whose
\* (platform, post_id) has no row in table posts at the time of the call.
C15_ExactlyTheUnprocessed ==
    (fn_output # None /\ fn_output.value.op = "filter_processed") =>
        LET known == {i \in 1..Len(fn_input) :
                         \E row \in posts_table :
                             /\ row.platform = fn_input[i].platform
                             /\ row.post_id = fn_input[i].post_id}
        IN fn_output.value.value
              = PostsAt(fn_input, KeptIndexes(fn_input, known))

\* C16: filter_by_age(posts, max_age_hours) keeps, in input order, exactly the
\* posts that are at most max_age_hours old: one exactly at the cutoff is
\* kept, and with 24 hours a post 25 hours old is dropped and one 23 hours old
\* is kept.
C16_AgeCutoff ==
    (fn_output # None /\ fn_output.value.op = "filter_by_age") =>
        LET hours == fn_output.value.max_age_hours
            older == {i \in 1..Len(fn_input) :
                         now - fn_input[i].timestamp > hours * SecondsPerHour}
        IN fn_output.value.value
              = PostsAt(fn_input, KeptIndexes(fn_input, older))

\* C16 witness: filter_by_age with 24 hours on posts 25, 24 and 23 hours old
\* kept the last two
C16_Witness ==
    /\ fn_output # None
    /\ fn_output.value.op = "filter_by_age"
    /\ fn_output.value.max_age_hours = DefaultMaxAgeHours
    /\ Len(fn_input) = 3
    /\ now - fn_input[1].timestamp = (DefaultMaxAgeHours + 1) * SecondsPerHour
    /\ now - fn_input[2].timestamp = DefaultMaxAgeHours * SecondsPerHour
    /\ now - fn_input[3].timestamp = (DefaultMaxAgeHours - 1) * SecondsPerHour
    /\ fn_output.value.value = <<fn_input[2], fn_input[3]>>

\* C17: for every result list and every integer max_posts_per_run,
\* filter_top_posts returns a prefix of its input of at most max_posts_per_run
\* entries (of none when max_posts_per_run is below zero), and the input
\* itself when that has at most max_posts_per_run entries.
C17_PrefixWithinCap ==
    (fn_output # None /\ fn_output.value.op = "filter_top_posts") =>
        LET out == fn_output.value.value
            cap == IF config.max_posts_per_run < 0 THEN 0
                   ELSE config.max_posts_per_run
        IN /\ Len(out) <= Len(fn_input)
           /\ out = SubSeq(fn_input, 1, Len(out))
           /\ Len(out) <= cap
           /\ Len(fn_input) <= config.max_posts_per_run => out = fn_input

\* the filter stage removes the post at index i of posts, the store holding
\* table at time t: a later post of a key seen before, a post with a row in
\* table posts, a post older than 24 hours
Removed(posts, i, table, t) ==
    \/ \E j \in 1..(i - 1) :
          /\ posts[j].platform = posts[i].platform
          /\ posts[j].post_id = posts[i].post_id
    \/ \E row \in table :
          /\ row.platform = posts[i].platform
          /\ row.post_id = posts[i].post_id
    \/ t - posts[i].timestamp > DefaultMaxAgeHours * SecondsPerHour

\* the posts of the list from position i on that are not removed, in order
RECURSIVE LeftFrom(_, _, _, _)
LeftFrom(posts, i, table, t) ==
    IF i > Len(posts) THEN <<>>
    ELSE (IF Removed(posts, i, table, t) THEN <<>> ELSE <<posts[i]>>)
             \o LeftFrom(posts, i + 1, table, t)

\* the rows of table that were written for post
RowsOf(table, post) ==
    {row \in table :
        /\ row.platform = post.platform
        /\ row.post_id = post.post_id
        /\ row.title = post.title
        /\ row.content = post.content
        /\ row.post_timestamp = post.timestamp}

\* C18: process_posts removes duplicates, then processed posts, then posts
\* older than 24 hours, and scores only what is left: a post one of the
\* filters removed is not written to by score_post, gets no row in table posts
\* and has no result in the list the run returns.
C18_FiltersBeforeScoring ==
    [][/\ runs' = runs + 1 =>
            batch' = LeftFrom(fn_input', 1, posts_table, now)
       /\ (pc = "scored" /\ pc' = "idle") =>
            \A i \in 1..Len(fn_input) :
                (\A b \in Range(batch) : ~SameUnscored(b, fn_input[i])) =>
                    /\ fn_input'[i] = fn_input[i]
                    /\ \A r \in Range(returned'.value) :
                          ~SameUnscored(r.post, fn_input[i])
                    /\ RowsOf(posts_table', fn_input[i])
                          \subseteq RowsOf(posts_table, fn_input[i])]_vars

\* C18 witness: a run has returned results, and the post 25 hours old of its
\* list is as it was handed in and has no row in table posts
C18_Witness ==
    /\ pc = "idle"
    /\ returned.op = "process_posts"
    /\ returned.value # <<>>
    /\ posts_table # {}
    /\ \E i \in 1..Len(fn_input) :
          /\ now - fn_input[i].timestamp = (DefaultMaxAgeHours + 1) * SecondsPerHour
          /\ fn_input[i].score = 0
          /\ fn_input[i].keyword_matches = <<>>
          /\ RowsOf(posts_table, fn_input[i]) = {}
          /\ \A r \in Range(returned.value) : ~SameUnscored(r.post, fn_input[i])

Min(a, b) == IF a < b THEN a ELSE b

\* C19: the list process_posts returns is the score floor applied before the
\* cap: it holds the first min(k, max_posts_per_run) of the sorted results
\* with final_score >= 1, k being their number; no returned result is below 1
\* and no omitted result of at least 1 is above a returned one.
C19_FloorBeforeCap ==
    [][(pc = "scored" /\ pc' = "idle") =>
        LET out == returned'.value
            above == {i \in 1..Len(results) :
                         results[i].final_score >= DefaultMinScore}
            taken == CHOOSE f \in [1..Len(out) -> 1..Len(results)] :
                        /\ \A i \in DOMAIN f : out[i] = results[f[i]]
                        /\ \A i, j \in DOMAIN f : i < j => f[i] # f[j]
        IN /\ Len(out) = Min(Cardinality(above), config.max_posts_per_run)
           /\ NonIncreasing(out)
           /\ StableSelection(out, results)
           /\ \A i \in 1..Len(out) : out[i].final_score >= DefaultMinScore
           /\ \A i \in above \ Range(taken) :
                 \A j \in 1..Len(out) :
                     out[j].final_score >= results[i].final_score]_vars

\* C19 witness: a run capped at one post returned one result; of the caller's
\* posts one was scored below 1 and another one at least 1 and not below the
\* floor, and neither is in the returned list
C19_Witness ==
    /\ pc = "idle"
    /\ returned.op = "process_posts"
    /\ config.max_posts_per_run = 1
    /\ Len(returned.value) = 1
    /\ \E i, j \in 1..Len(fn_input) :
          /\ fn_input[i].score < DefaultMinScore
          /\ fn_input[i].score # 0
          /\ fn_input[j].score >= DefaultMinScore
          /\ fn_input[j].score <= returned.value[1].final_score
          /\ fn_input[i] # returned.value[1].post
          /\ fn_input[j] # returned.value[1].post

\* C20: process_posts returns [] at once exactly when the three filters leave
\* no post (an empty list included); that call reads no keywords, leaves the
\* keyword cache and its timestamp as they are, writes to no post and adds no
\* row to posts or scoring_history.
C20_EarlyExit ==
    [][runs' = runs + 1 =>
        LET left == LeftFrom(fn_input', 1, posts_table, now)
        IN /\ left = <<>> <=> pc' = "idle"
           /\ pc' = "idle" =>
                 /\ returned' = [op |-> "process_posts", value |-> <<>>]
                 /\ last_get' = "none"
                 /\ keyword_cache' = keyword_cache
                 /\ cache_timestamp' = cache_timestamp
                 /\ posts_table' = posts_table
                 /\ scoring_history' = scoring_history
                 /\ next_rowid' = next_rowid
                 /\ batch' = <<>>
                 /\ results' = <<>>]_vars

\* C20 witness: process_posts has returned [] for a list that is not empty,
\* and the keyword cache has never been filled
C20_Witness ==
    /\ pc = "idle"
    /\ returned = [op |-> "process_posts", value |-> <<>>]
    /\ runs >= 1
    /\ fn_input # <<>>
    /\ \A i \in 1..Len(fn_input) :
          fn_input[i].score = 0 /\ fn_input[i].keyword_matches = <<>>
    /\ keyword_cache = None
    /\ cache_timestamp = None
    /\ posts_table = {}
    /\ scoring_history = {}

-----------------------------------------------------------------------------
(* The persist stage and the failures of the post store.                   *)

\* save_post has logged an error for the post of result r
SaveFailed(errors, r) == [op |-> "save_post", key |-> PostKey(r.post)] \in errors

\* the rows of table posts that hold result r, each with its history row
PersistedRows(table, history, r) ==
    {row \in RowsOf(table, r.post) :
        /\ row.score = r.final_score
        /\ HistoryRow(row.id, r) \in history}

C22_NeverFailsTheRun ==
    returned.op = "process_posts" => ~Has(returned, "raised")

\* C23: a post whose processed-lookup failed during filter_processed is
\* skipped: it is not handed to score_posts and has no result in the list
\* the run returns.
C23_FailedLookupSkipsPost ==
    \A e \in db_errors :
        e.op = "is_post_processed" =>
            /\ \A b \in Range(batch) : PostKey(b) # e.key
            /\ \A r \in Range(returned.value) : PostKey(r.post) # e.key

\* the rows of table that were written less than hours hours before t,
\* with a score of at least min_score
RowsInWindow(table, hours, min_score, t, offset) ==
    {row \in table :
        /\ row.score >= min_score
        /\ t - (row.processed_at + offset) < hours * SecondsPerHour}

\* C24: get_top_opportunities(hours, min_score) is read-only: it writes
\* nothing to the post store, leaves the keyword cache alone and scores
\* nothing; when the store can be read it returns one result per post record
\* with score >= min_score written within the last hours hours, with
\* keyword_score = final_score = the stored score, time_bonus = 0 and
\* link_penalty = 0.
C24_ReadOnlyQuery ==
    [][(runs' = runs + 1 /\ returned'.op = "get_top_opportunities") =>
        LET rows == RowsInWindow(posts_table, fn_input'[1], fn_input'[2],
                                 now, utc_offset)
            out == returned'.value
        IN /\ posts_table' = posts_table
           /\ scoring_history' = scoring_history
           /\ next_rowid' = next_rowid
           /\ keyword_cache' = keyword_cache
           /\ cache_timestamp' = cache_timestamp
           /\ last_get' = "none"
           /\ results' = results
           /\ db_errors' = {} =>
                 /\ Len(out) = Cardinality(rows)
                 /\ \A row \in rows :
                       \E i \in 1..Len(out) :
                           /\ row \in RowsOf(posts_table, out[i].post)
                           /\ out[i].keyword_score = row.score
                           /\ out[i].final_score = row.score
                           /\ out[i].time_bonus = 0
                           /\ out[i].link_penalty = 0]_vars

\* C25: the full keyword snapshot the keyword store returns (get_keywords
\* with no category) is ordered by weight descending, ties by keyword text
\* ascending, whatever categories the stored keywords are in.  The snapshot
\* is looked at where the matcher keeps it.
C25_SnapshotByWeight ==
    keyword_cache # None =>
        \A i, j \in 1..Len(keyword_cache.value) :
            i < j =>
                LET r == keyword_cache.value[i]
                    q == keyword_cache.value[j]
                IN \/ r[3] > q[3]
                   \/ r[3] = q[3] /\ TextLess(r[1], q[1])

-----------------------------------------------------------------------------
(* score_post on one keyword snapshot.                                     *)

\* posts p and q agree on what score_post reads of a post
SameContent(p, q) ==
    /\ p.title = q.title
    /\ p.content = q.content
    /\ p.timestamp = q.timestamp
    /\ p.has_external_links = q.has_external_links

\* C26: score_post is deterministic: two scorings of posts with equal title,
\* content, timestamp and has_external_links, against the same keyword
\* snapshot, configuration and clock, give the same keyword_score,
\* time_bonus, link_penalty and final_score, in whatever order the set of
\* matches was enumerated.
C26_Deterministic ==
    \A r, q \in Range(results) :
        SameContent(r.post, q.post) =>
            /\ r.keyword_score = q.keyword_score
            /\ r.time_bonus = q.time_bonus
            /\ r.link_penalty = q.link_penalty
            /\ r.final_score = q.final_score

\* C26 witness: one call has scored two equal posts with two keywords each,
\* the match set enumerated in one order for the first and in the other order
\* for the second, and the four scores agree
C26_Witness ==
    \E i, j \in 1..Len(results) :
        /\ i < j
        /\ SameContent(results[i].post, results[j].post)
        /\ Len(results[i].matched_keywords) = 2
        /\ results[i].matched_keywords # results[j].matched_keywords
        /\ results[i].keyword_score = results[j].keyword_score
        /\ results[i].final_score = results[j].final_score
        /\ results[i].keyword_score > 0

\* C27: after score_post(post) returns result r the post carries the result
\* (post.score = r.final_score, post.keyword_matches = r.matched_keywords),
\* and that list holds each matched keyword text exactly once; so it is for
\* every result score_posts has built and process_posts has returned.
C27_PostCarriesResult ==
    \A r \in Range(results) \cup
              (IF returned.op = "process_posts" THEN Range(returned.value) ELSE {}) :
        /\ r.post.score = r.final_score
        /\ r.post.keyword_matches = r.matched_keywords
        /\ \A i, j \in 1..Len(r.matched_keywords) :
              i # j => r.matched_keywords[i] # r.matched_keywords[j]

-----------------------------------------------------------------------------
(* Runs that follow one another on one post store.                         *)

\* the rows of table with the key of post
RowsWithKey(table, post) ==
    {row \in table : <<row.platform, row.post_id>> = PostKey(post)}

\* the posts of a list a run takes up when no lookup fails: the first of its
\* key, not older than 24 hours at t, without a row in table
Eligible(posts, i, table, t) ==
    /\ \A j \in 1..(i - 1) : PostKey(posts[j]) # PostKey(posts[i])
    /\ t - posts[i].timestamp <= DefaultMaxAgeHours * SecondsPerHour
    /\ RowsWithKey(table, posts[i]) = {}

\* C28: over the runs on one post store, with no record removed and no
\* lookup failing: a post a run returned and persisted is not returned by a
\* later run (nothing a run takes up or returns has a record from an earlier
\* run, and a returned result whose save_post succeeded has a record from
\* then on); a post that was returned but whose save_post failed has no
\* record, and a later run that receives it takes it up again.
C28_ReturnedOncePerRecord ==
    [][/\ runs' = runs + 1 =>
            /\ \A b \in Range(batch') : RowsWithKey(posts_table, b) = {}
            /\ \A i \in 1..Len(fn_input') :
                  Eligible(fn_input', i, posts_table, now) =>
                      fn_input'[i] \in Range(batch')
       /\ (pc = "scored" /\ pc' = "idle") =>
            \A r \in Range(returned'.value) :
                /\ RowsWithKey(posts_table, r.post) = {}
                /\ SaveFailed(db_errors', r) <=>
                       RowsWithKey(posts_table', r.post) = {}
       /\ \A row \in posts_table :
             \E kept \in posts_table' :
                 /\ kept.platform = row.platform
                 /\ kept.post_id = row.post_id]_vars

\* C28 witness: the second run was handed a post that has a record from the
\* first run and is not in the list now returned, and another post that is
\* in the returned list, whose save_post failed and which has no record
C28_Witness ==
    /\ pc = "idle"
    /\ runs = 2
    /\ returned.op = "process_posts"
    /\ \E i, j \in 1..Len(fn_input) :
          /\ Eligible(fn_input, i, {}, now)
          /\ RowsWithKey(posts_table, fn_input[i]) # {}
          /\ \A r \in Range(returned.value) : PostKey(r.post) # PostKey(fn_input[i])
          /\ \E r \in Range(returned.value) :
                /\ r.post = fn_input[j]
                /\ SaveFailed(db_errors, r)
                /\ RowsWithKey(posts_table, fn_input[j]) = {}

\* C29: process_posts persists only the results it returns.  The rows a run
\* adds to posts and to scoring_history are rows of returned results (at
\* most max_posts_per_run of them, none with a score under 1); a post that
\* was scored and then dropped by the score floor or by the cap has no
\* record after the run, so that a later run that receives it inside the age
\* window takes it up and scores it again.
C29_OnlyReturnedPersisted ==
    [][(pc = "scored" /\ pc' = "idle") =>
        LET out == Range(returned'.value)
            new_rows == posts_table' \ posts_table
            new_history == scoring_history' \ scoring_history
        IN /\ \A row \in new_rows :
                 /\ row.score >= DefaultMinScore
                 /\ \E r \in out :
                       row \in PersistedRows(posts_table', scoring_history', r)
           /\ Cardinality(new_rows) <= config.max_posts_per_run
           /\ \A h \in new_history :
                 \E r \in out, row \in new_rows :
                     /\ row \in RowsOf(posts_table', r.post)
                     /\ h = HistoryRow(row.id, r)
           /\ \A d \in Range(results) \ out :
                 /\ RowsWithKey(posts_table', d.post) = {}
                 /\ \A i \in 1..Len(fn_input') :
                       fn_input'[i] = d.post =>
                           Eligible(fn_input', i, posts_table', now)]_vars

\* C29 witness: a run capped at one post has returned and persisted one
\* result; of the caller's posts one was scored under 1 and one at least 1,
\* neither is in the returned list, and neither has a record
C29_Witness ==
    /\ pc = "idle"
    /\ returned.op = "process_posts"
    /\ Len(returned.value) = 1
    /\ PersistedRows(posts_table, scoring_history, returned.value[1]) # {}
    /\ \E i, j \in 1..Len(fn_input) :
          /\ fn_input[i].score < DefaultMinScore
          /\ fn_input[i].score # 0
          /\ fn_input[j].score >= DefaultMinScore
          /\ fn_input[j].keyword_matches # <<>>
          /\ \A k \in {i, j} :
                /\ PostKey(fn_input[k]) # PostKey(returned.value[1].post)
                /\ RowsWithKey(posts_table, fn_input[k]) = {}
                /\ Eligible(fn_input, k, posts_table, now)

\* the keywords of snapshot kws that find_matches finds in the title or in
\* the content of post
MatchedIn(post, kws) ==
    Range(FindMatchesIn(post.title, kws)) \cup Range(FindMatchesIn(post.content, kws))

\* C30: when the keyword texts of the snapshot are unique and the snapshot
\* does not change during the call, the keyword_score score_post computes is
\* the sum of the full weights of the distinct keywords matched in the title
\* or the content: no keyword reaches calculate_keyword_score twice, so its
\* half-weight and zero-weight branches are not taken.
C30_FullWeightsOnly ==
    \A kws \in batch_snapshots :
        (/\ batch_snapshots = {kws}
         /\ \A i, j \in 1..Len(kws) : i # j => kws[i][1] # kws[j][1]) =>
            \A r \in Range(results) :
                LET matched == MatchedIn(r.post, kws)
                IN /\ r.keyword_score = SumOver(matched, [m \in matched |-> m[3]])
                   /\ Len(r.matched_keywords) = Cardinality(matched)
                   /\ Range(r.matched_keywords) = {m[1] : m \in matched}

\* C30 witness: a post with one keyword in its title and in its content and
\* another keyword in its title only has been scored against one snapshot,
\* and its keyword_score is the sum of the two full weights
C30_Witness ==
    \E kws \in batch_snapshots :
        /\ batch_snapshots = {kws}
        /\ \E r \in Range(results) :
              /\ Range(FindMatchesIn(r.post.title, kws))
                    \cap Range(FindMatchesIn(r.post.content, kws)) # {}
              /\ Cardinality(MatchedIn(r.post, kws)) = 2
              /\ r.keyword_score =
                    SumOver(MatchedIn(r.post, kws),
                            [m \in MatchedIn(r.post, kws) |-> m[3]])
              /\ r.keyword_score > 0

====
